---- MODULE Spec2Model ----
(***************************************************************************)
(* FusionLogger-Python: the record pipeline of the two packages the        *)
(* repository ships.                                                       *)
(*                                                                         *)
(*   fusion_logger  (core.py, processors.py, defs.py): FusionLogger.__log  *)
(*       filters by level, builds a FusionLogRecord and calls              *)
(*       FusionLogProcessor.process_record in the calling thread.          *)
(*   FusionLogger   (FusionLogger.py, processors.py, FusionLogProcessor.py)*)
(*       FusionLogger.__log builds a record and puts it on the processor's *)
(*       queue; ProcessingThread.run takes records off the queue.          *)
(*                                                                         *)
(* Text is a sequence of one-character strings.                            *)
(***************************************************************************)
EXTENDS Integers, Sequences, FiniteSets, TLC

\* ------------------------------------------------------------------ bounds
\* Number of threads that call the logger (or construct the processor).
NThreads == 2
\* Number of log calls made in one behaviour, all threads together.
MaxCalls == 2
\* Number of logger/builder operations made after build() handed out the logger.
MaxLateOps == 1
\* Number of FusionLogProcessor(...) constructor calls one thread makes.
MaxCtorCalls == 2
\* Number of begin_scope/end_scope calls made in one behaviour.
MaxScopeOps == 3
\* Length of the templates drawn from the brace alphabet.
MaxTemplateLen == 4

Threads == 1..NThreads
\* The thread identity of ProcessingThread (not a caller thread).
WorkerThread == 0

\* ------------------------------------------------------------------- text
EmptyStr == << >>
NL == <<"\n">>

\* Python str.find(ch, start): the 0-based index of the first occurrence of
\* ch at or after start, or -1.
find(s, ch, start) ==
    LET hits == {i \in start..(Len(s) - 1) : s[i + 1] = ch}
    IN  IF hits = {} THEN -1 ELSE CHOOSE i \in hits : \A j \in hits : i <= j

\* Python s[a:b] for 0 <= a <= b <= len(s).
slice(s, a, b) == [i \in 1..(b - a) |-> s[a + i]]

\* Python s[:n].
prefix(s, n) == slice(s, 0, IF n < Len(s) THEN n ELSE Len(s))

Digit(d) == CASE d = 0 -> "0" [] d = 1 -> "1" [] d = 2 -> "2" [] d = 3 -> "3"
              [] d = 4 -> "4" [] d = 5 -> "5" [] d = 6 -> "6" [] d = 7 -> "7"
              [] d = 8 -> "8" [] d = 9 -> "9"

\* Python str(n) for an int n >= 0.
RECURSIVE str(_)
str(n) == IF n < 10 THEN <<Digit(n)>> ELSE str(n \div 10) \o <<Digit(n % 10)>>

\* Two digits, zero padded (strftime's %H, %M, %S, %m, %d).
pad2(n) == <<Digit(n \div 10), Digit(n % 10)>>

\* datetime.fromtimestamp(ts).strftime("%Y-%m-%d %H:%M:%S") for a timestamp
\* of the first day of the epoch, local time taken as UTC.
strftime(ts) ==
    <<"1", "9", "7", "0", "-", "0", "1", "-", "0", "1", " ">>
      \o pad2((ts \div 3600) % 24) \o <<":">> \o pad2((ts \div 60) % 60)
      \o <<":">> \o pad2(ts % 60)

\* ----------------------------------------------------------------- levels
\* fusion_logger.defs.FusionLogLevel: member name and value.
FusionLogLevel == {"DEBUG", "INFO", "WARNING", "CRITICAL"}
value == [l \in FusionLogLevel |->
             CASE l = "DEBUG" -> 0 [] l = "INFO" -> 1
               [] l = "WARNING" -> 2 [] l = "CRITICAL" -> 3]

\* FusionLogger.FusionLogLevel.FusionLogLevel: "Debug = 0," makes the value
\* the tuple (0,); only Critical = 3 is an int.
LegacyLogLevel == {"Debug", "Info", "Warning", "Critical"}
\* A value is written [tuple |-> whether it is a 1-tuple, v |-> its number].
legacy_value == [l \in LegacyLogLevel |->
             CASE l = "Debug" -> [tuple |-> TRUE, v |-> 0]
               [] l = "Info" -> [tuple |-> TRUE, v |-> 1]
               [] l = "Warning" -> [tuple |-> TRUE, v |-> 2]
               [] l = "Critical" -> [tuple |-> FALSE, v |-> 3]]

\* Enum member .name, for the members of every FusionLogLevel enumeration
\* (FusionLogger.defs.FusionLogLevel names its members as fusion_logger's).
AnyLogLevel == FusionLogLevel \cup LegacyLogLevel
level_name == [l \in AnyLogLevel |->
             CASE l = "DEBUG" -> <<"D", "E", "B", "U", "G">>
               [] l = "INFO" -> <<"I", "N", "F", "O">>
               [] l = "WARNING" -> <<"W", "A", "R", "N", "I", "N", "G">>
               [] l = "CRITICAL" -> <<"C", "R", "I", "T", "I", "C", "A", "L">>
               [] l = "Debug" -> <<"D", "e", "b", "u", "g">>
               [] l = "Info" -> <<"I", "n", "f", "o">>
               [] l = "Warning" -> <<"W", "a", "r", "n", "i", "n", "g">>
               [] l = "Critical" -> <<"C", "r", "i", "t", "i", "c", "a", "l">>]

\* Python a >= b on those values: ints with ints, tuples with tuples
\* (lexicographic, here one element); a tuple against an int raises TypeError.
py_comparable(a, b) == a.tuple = b.tuple
py_ge(a, b) == a.v >= b.v

\* --------------------------------------------------------------- template
LiteralToken(literal) == [type |-> "Literal", text |-> literal]
FormatToken(key) == [type |-> "Format", text |-> key]

\* Python str.rfind(ch, start): the 0-based index of the last occurrence of
\* ch at or after start, or -1.
rfind(s, ch, start) ==
    LET hits == {i \in start..(Len(s) - 1) : s[i + 1] = ch}
    IN  IF hits = {} THEN -1 ELSE CHOOSE i \in hits : \A j \in hits : j <= i

\* The while loop of parse_template with one slip, named by fault:
\*   "key"   an unterminated "{" starts a FormatToken of the remaining text;
\*   "rfind" the closing brace is looked up with rfind;
\*   "tail"  the text after the last placeholder is not appended;
\*   "le"    the loop test is "position <= len(template)".
RECURSIVE parse_faulty(_, _, _, _)
parse_faulty(fault, template, position, tokens) ==
    IF ~(position < Len(template) \/ (fault = "le" /\ position = Len(template)))
    THEN tokens
    ELSE LET start == find(template, "{", position) IN
         IF start = -1
         THEN IF fault = "tail" THEN tokens
              ELSE Append(tokens, LiteralToken(slice(template, position, Len(template))))
         ELSE LET t1 == IF start > position
                        THEN Append(tokens, LiteralToken(slice(template, position, start)))
                        ELSE tokens
                  end == IF fault = "rfind" THEN rfind(template, "}", start)
                         ELSE find(template, "}", start)
              IN  IF end = -1
                  THEN IF fault = "key"
                       THEN Append(t1, FormatToken(slice(template, start + 1, Len(template))))
                       ELSE Append(t1, LiteralToken(slice(template, start, Len(template))))
                  ELSE parse_faulty(fault, template, end + 1,
                                    Append(t1, FormatToken(slice(template, start + 1, end))))

parse_loop_key(template, position, tokens) ==
    parse_faulty("key", template, position, tokens)
parse_loop_rfind(template, position, tokens) ==
    parse_faulty("rfind", template, position, tokens)
parse_loop_tail(template, position, tokens) ==
    parse_faulty("tail", template, position, tokens)
parse_loop_le(template, position, tokens) ==
    parse_faulty("le", template, position, tokens)

\* processors.parse_template: the while loop, one call per iteration.
RECURSIVE parse_loop(_, _, _)
parse_loop(template, position, tokens) ==
    IF ~(position < Len(template)) THEN tokens
    ELSE LET start == find(template, "{", position) IN
         IF start = -1
         THEN Append(tokens, LiteralToken(slice(template, position, Len(template))))
         ELSE LET t1 == IF start > position
                        THEN Append(tokens, LiteralToken(slice(template, position, start)))
                        ELSE tokens
                  end == find(template, "}", start)
              IN  IF end = -1
                  THEN Append(t1, LiteralToken(slice(template, start, Len(template))))
                  ELSE parse_loop(template, end + 1,
                                  Append(t1, FormatToken(slice(template, start + 1, end))))

parse_template(template) == parse_loop(template, 0, << >>)

\* One iteration of parse_template's while loop without line 42: the scan
\* position is left where it was.
parse_step_stuck(template, position, tokens) ==
    LET start == find(template, "{", position) IN
    IF start = -1
    THEN [position |-> position, break |-> TRUE,
          tokens |-> Append(tokens, LiteralToken(slice(template, position, Len(template))))]
    ELSE LET t1 == IF start > position
                   THEN Append(tokens, LiteralToken(slice(template, position, start)))
                   ELSE tokens
             end == find(template, "}", start)
         IN  IF end = -1
             THEN [position |-> position, break |-> TRUE,
                   tokens |-> Append(t1, LiteralToken(slice(template, start, Len(template))))]
             ELSE [position |-> position, break |-> FALSE,
                   tokens |-> Append(t1, FormatToken(slice(template, start + 1, end)))]

\* processors.parse_template, lines 22-42: one iteration of the while loop,
\* from the scan position and the tokens it starts with to those it ends
\* with, and whether it ends by "break".
parse_step(template, position, tokens) ==
    LET start == find(template, "{", position) IN
    IF start = -1
    THEN [position |-> position, break |-> TRUE,
          tokens |-> Append(tokens, LiteralToken(slice(template, position, Len(template))))]
    ELSE LET t1 == IF start > position
                   THEN Append(tokens, LiteralToken(slice(template, position, start)))
                   ELSE tokens
             end == find(template, "}", start)
         IN  IF end = -1
             THEN [position |-> position, break |-> TRUE,
                   tokens |-> Append(t1, LiteralToken(slice(template, start, Len(template))))]
             ELSE [position |-> end + 1, break |-> FALSE,
                   tokens |-> Append(t1, FormatToken(slice(template, start + 1, end)))]

K_NAME == <<"N", "A", "M", "E">>
K_SCOPE == <<"S", "C", "O", "P", "E">>
K_LEVEL == <<"L", "E", "V", "E", "L">>
K_HOSTNAME == <<"H", "O", "S", "T", "N", "A", "M", "E">>
K_MESSAGE == <<"M", "E", "S", "S", "A", "G", "E">>
K_TIMESTAMP == <<"T", "I", "M", "E", "S", "T", "A", "M", "P">>
K_PID == <<"P", "I", "D">>
K_TID == <<"T", "I", "D">>
UNKNOWN_FORMAT == <<"U", "N", "K", "N", "O", "W", "N", "_", "F", "O", "R", "M", "A", "T">>

\* defs.LiteralToken.apply
LiteralToken_apply(token, record, built) == built \o token.text

\* FormatToken.apply with one slip, named by fault:
\*   "silent" an unknown key appends nothing;
\*   "name"   LEVEL appends the whole member name.
FormatToken_faulty(fault, token, record, lg, built) ==
    CASE token.text = K_NAME -> built \o lg.name
      [] token.text = K_SCOPE -> built \o lg.scope
      [] token.text = K_TIMESTAMP -> built \o strftime(record.timestamp)
      [] token.text = K_LEVEL ->
            built \o (IF fault = "name" THEN level_name[record.level]
                      ELSE prefix(level_name[record.level], 4))
      [] token.text = K_HOSTNAME -> built \o record.hostname
      [] token.text = K_MESSAGE -> built \o record.message
      [] token.text = K_PID -> built \o str(record.process_id)
      [] token.text = K_TID -> built \o str(record.thread_id)
      [] OTHER -> IF fault = "silent" THEN built ELSE built \o UNKNOWN_FORMAT

FormatToken_apply_silent(token, record, lg, built) ==
    FormatToken_faulty("silent", token, record, lg, built)
FormatToken_apply_name(token, record, lg, built) ==
    FormatToken_faulty("name", token, record, lg, built)

\* defs.FormatToken.apply; lg is the logger record.logger refers to, as it
\* is when the token is applied.
FormatToken_apply(token, record, lg, built) ==
    CASE token.text = K_NAME -> built \o lg.name
      [] token.text = K_SCOPE -> built \o lg.scope
      [] token.text = K_TIMESTAMP -> built \o strftime(record.timestamp)
      [] token.text = K_LEVEL -> built \o prefix(level_name[record.level], 4)
      [] token.text = K_HOSTNAME -> built \o record.hostname
      [] token.text = K_MESSAGE -> built \o record.message
      [] token.text = K_PID -> built \o str(record.process_id)
      [] token.text = K_TID -> built \o str(record.thread_id)
      [] OTHER -> built \o UNKNOWN_FORMAT

Token_apply(token, record, lg, built) ==
    IF token.type = "Literal" THEN LiteralToken_apply(token, record, built)
    ELSE FormatToken_apply(token, record, lg, built)

\* The for loop of apply_template with "out = token.apply(record, "")": each
\* token is applied to an empty text.
RECURSIVE apply_loop_reset(_, _, _, _, _)
apply_loop_reset(tokens, i, record, lg, acc) ==
    IF i > Len(tokens) THEN acc
    ELSE apply_loop_reset(tokens, i + 1, record, lg,
                          IF tokens[i].type = "Literal" THEN tokens[i].text
                          ELSE FormatToken_faulty("none", tokens[i], record, lg, EmptyStr))

\* processors.FusionLogFormatter.apply_template: the for loop over the tokens.
RECURSIVE apply_loop(_, _, _, _, _)
apply_loop(tokens, i, record, lg, acc) ==
    IF i > Len(tokens) THEN acc
    ELSE apply_loop(tokens, i + 1, record, lg, Token_apply(tokens[i], record, lg, acc))

apply_template(tokens, record, lg) == apply_loop(tokens, 1, record, lg, EmptyStr)

\* FusionLogger.processors.FusionLogFormatter.format: f"Formatted: {record.message}"
legacy_format(record) ==
    <<"F", "o", "r", "m", "a", "t", "t", "e", "d", ":", " ">> \o record.message

\* ------------------------------------------------------------------ state
VARIABLES
    logger,      \* the FusionLogger the callers share: its attributes (and, in
                 \* formatter.template, the text its tokens were compiled from)
    built,       \* FusionLoggerBuilder.build() has handed the logger out
    lateOps,     \* operations on the logger/builder made after build()
    scopeOps,    \* history: the begin_scope/end_scope calls made, in order
    called,      \* history: per log call, its level and what the logger's
                 \* min_level, name, scope and log_files were at the call
    handed,      \* history: ids of the records handed to the processor, in order
    pc,          \* per caller thread: where it is inside a log call
    rec,         \* per caller thread: the FusionLogRecord of its call
    out,         \* per caller thread: process_record's local "out"
    iterSet,     \* per caller thread: the set as the for loop's iterator saw it
    todo,        \* per caller thread: paths the iterator has not yielded yet
    cur,         \* per caller thread: the loop variable "file"
    buf,         \* per caller thread: text written to opened_file, not yet flushed
    outcome,     \* per caller thread: how its last log call ended
    done,        \* history: the records whose process_record call has ended
    stdout,      \* what print() wrote, in order, with the writing thread
    fs,          \* per path: the pieces appended to the file, in order
    handles,     \* the file objects that are open: <<thread, path>>
    pkg,         \* which module's processor is in use
    queue,       \* FusionLogProcessor._queue
    stop_event,  \* ProcessingThread.stop_event
    wpc,         \* ProcessingThread.run: where the worker is
    wrec,        \* ProcessingThread.run: local "record"
    wout,        \* ProcessingThread.run: local "out"
    wlock,       \* ProcessingThread._lock is held
    stopSeen,    \* history: the worker's loop test has read stop_event set
    takenAfter,  \* history: records dequeued after the loop test saw the stop
    slock,       \* SingletonMeta._lock: the thread holding it, or 0
    instances,   \* SingletonMeta._instances[cls]: the instance, or 0
    spc,         \* per thread: where it is inside SingletonMeta.__call__
    sinst,       \* per thread: __call__'s local "instance"
    sret,        \* per thread: the instances its calls returned, in order
    nInit,       \* number of FusionLogProcessor.__init__ runs
    nQueues,     \* number of Queue() objects created
    nWorkers,    \* number of ProcessingThread objects started
    parse        \* a call of parse_template: its argument and its locals

coreVars == <<built, lateOps, scopeOps, called, handed, pc, rec, out, iterSet,
              todo, cur, buf, outcome, done, stdout, fs, handles>>
workerVars == <<pkg, queue, stop_event, wpc, wrec, wout, wlock, stopSeen, takenAfter>>
singletonVars == <<slock, instances, spc, sinst, sret, nInit, nQueues, nWorkers>>
vars == <<logger, coreVars, workerVars, singletonVars, parse>>

\* ----------------------------------------------------------------- inputs
Paths == {"a.log", "nodir/b.log"}
\* Paths open(file, "a") cannot open (the directory does not exist): OSError.
Unwritable == {"nodir/b.log"}
Messages == {<<"m">>}
\* "[{LEVEL}] {MESSAGE}"
T_LEVEL_MESSAGE == <<"[", "{", "L", "E", "V", "E", "L", "}", "]", " ",
                     "{", "M", "E", "S", "S", "A", "G", "E", "}">>
Templates == {EmptyStr, T_LEVEL_MESSAGE}
\* Arguments of begin_scope/end_scope and of set_name.
Scopes == {<<"a">>, <<"b">>}
Names == {<<"n">>}
\* The template of the scope specification: "{NAME}:{SCOPE}".
T_NAME_SCOPE == <<"{", "N", "A", "M", "E", "}", ":", "{", "S", "C", "O", "P", "E", "}">>
\* Templates given to FusionLogFormatter in the template specification:
\* every text of at most MaxTemplateLen characters over a brace alphabet,
\* one placeholder per key, known or not, and some longer texts.
Alphabet == {"{", "}", "A"}
TemplateStrings == UNION {[1..n -> Alphabet] : n \in 0..MaxTemplateLen}
KnownKeys == {K_NAME, K_SCOPE, K_LEVEL, K_HOSTNAME, K_MESSAGE, K_TIMESTAMP, K_PID, K_TID}
UnknownKeys == {<<"B", "O", "G", "U", "S">>, <<"l", "e", "v", "e", "l">>, <<"L", "e", "v", "e", "l">>, <<"n", "a", "m", "e">>}
KeyTemplates == {<<"{">> \o key \o <<"}">> : key \in KnownKeys \cup UnknownKeys}
\* "{{LEVEL}"
T_NESTED == <<"{", "{", "L", "E", "V", "E", "L", "}">>
\* "[{LEVEL}] {KEY"
T_UNMATCHED == <<"[", "{", "L", "E", "V", "E", "L", "}", "]", " ", "{", "K", "E", "Y">>
\* "{}{level}{BOGUS}"
T_UNKNOWNS == <<"{", "}", "{", "l", "e", "v", "e", "l", "}", "{", "B", "O", "G", "U", "S", "}">>
TemplateInputs ==
    TemplateStrings \cup KeyTemplates
        \cup {T_LEVEL_MESSAGE, T_NAME_SCOPE, T_NESTED, T_UNMATCHED, T_UNKNOWNS}
\* "disk low"
TemplateMessages == {<<"d", "i", "s", "k", " ", "l", "o", "w">>}
\* The thread that calls process_record in the template specification.
TemplateCallers == {1}
\* Argument lists of write_to_files(*args).
PathLists == {<<"a.log", "a.log">>, <<"a.log", "nodir/b.log">>}
NoRecord == [id |-> 0]
\* No call of parse_template is under way.
NotParsing == [template |-> EmptyStr, position |-> 0, before |-> 0,
               tokens |-> << >>, iterations |-> 0, state |-> "none"]

\* processors.FusionLogFormatter.__init__. The object keeps the tokens only;
\* "template" records the constructor's argument.
FusionLogFormatter(template) ==
    [tokens |-> parse_template(template), template |-> template]

\* core.FusionLogger.__init__ (hostname, pid and tid are what the host gives).
FusionLogger_init ==
    [name |-> <<"F", "u", "s", "i", "o", "n", "L", "o", "g", "g", "e", "r">>,
     scope |-> EmptyStr,
     min_level |-> "INFO",
     formatter |-> FusionLogFormatter(EmptyStr),
     hostname |-> <<"h", "o", "s", "t">>,
     pid |-> 42,
     tid |-> 7,
     log_files |-> {}]

\* defs.FusionLogRecord as core.FusionLogger.__log fills it. "logger" and
\* "files" are references to the logger and to the logger's own log_files
\* set: the record holds no copy of either. time.time() is read as a clock
\* that ticks once per log call.
FusionLogRecord(id, level, message, lg) ==
    [id |-> id, level |-> level, message |-> message, timestamp |-> id,
     hostname |-> lg.hostname, process_id |-> lg.pid, thread_id |-> lg.tid]

\* threading.current_thread().ident of a caller thread. Thread 1 is the
\* thread that constructed the logger: thread_ident(1) = FusionLogger_init.tid.
thread_ident(t) == 6 + t

\* record.files: the set object the record refers to, as it is now.
record_files(record) == logger.log_files

\* __is_enabled with ">" for ">=".
is_enabled_strict(level, min_level) == value[level] > value[min_level]

\* core.FusionLogger.__is_enabled
is_enabled(level, min_level) == value[level] >= value[min_level]

\* The file handles open now: <<thread, path>>.
InFile == {"write_out", "write_nl"}
OpenHandles == {<<t, cur[t]>> : t \in {u \in Threads : pc[u] \in InFile}}

RangeOf(s) == {s[i] : i \in 1..Len(s)}

\* ------------------------------------------------- fusion_logger: builder
CanConfigure == ~built \/ lateOps < MaxLateOps
Configured == /\ built' = built
              /\ lateOps' = IF built THEN lateOps + 1 ELSE lateOps
              /\ UNCHANGED <<scopeOps, called, handed, pc, rec, out, iterSet, todo,
                             cur, buf, outcome, done, stdout, fs, handles>>
              /\ UNCHANGED <<workerVars, singletonVars, parse>>

\* core.FusionLogger.set_min_level / FusionLoggerBuilder.set_min_level
set_min_level(level) ==
    /\ CanConfigure
    /\ logger' = [logger EXCEPT !.min_level = level]
    /\ Configured

\* core.FusionLoggerBuilder.set_formatter
set_formatter(template) ==
    /\ CanConfigure
    /\ logger' = [logger EXCEPT !.formatter = FusionLogFormatter(template)]
    /\ Configured

\* core.FusionLoggerBuilder.set_name
set_name(name) ==
    /\ CanConfigure
    /\ logger' = [logger EXCEPT !.name = name]
    /\ Configured

\* core.FusionLoggerBuilder.write_to_file
write_to_file(path) ==
    /\ CanConfigure
    /\ logger' = [logger EXCEPT !.log_files = @ \cup {path}]
    /\ Configured

\* core.FusionLoggerBuilder.write_to_files
write_to_files(args) ==
    /\ CanConfigure
    /\ logger' = [logger EXCEPT !.log_files = @ \cup RangeOf(args)]
    /\ Configured

\* core.FusionLoggerBuilder.build
build ==
    /\ ~built
    /\ built' = TRUE
    /\ UNCHANGED <<logger, lateOps, scopeOps, called, handed, pc, rec, out, iterSet,
                   todo, cur, buf, outcome, done, stdout, fs, handles>>
    /\ UNCHANGED <<workerVars, singletonVars, parse>>

\* ---------------------------------------------------- fusion_logger: scope
\* A call of begin_scope or end_scope, which leaves the scope attribute at
\* "to"; the logger is the one build() returned. The calls are those of the one thread
\* that configures the logger, one after the other.
ScopeCall(op, scope, to) ==
    /\ Len(scopeOps) < MaxScopeOps
    /\ logger' = [logger EXCEPT !.scope = to]
    /\ scopeOps' = Append(scopeOps, [op |-> op, arg |-> scope,
                                     before |-> logger, after |-> logger'])
    /\ UNCHANGED <<built, lateOps, called, handed, pc, rec, out, iterSet, todo,
                   cur, buf, outcome, done, stdout, fs, handles>>
    /\ UNCHANGED <<workerVars, singletonVars, parse>>

\* A begin_scope that keeps an outer scope: it sets the scope only when
\* none is active.
begin_scope_outer(scope) ==
    /\ built
    /\ ScopeCall("begin_scope", scope,
                 IF logger.scope = EmptyStr THEN scope ELSE logger.scope)

\* core.FusionLogger.begin_scope (FusionLogger.FusionLogger.begin_scope has
\* the same text).
begin_scope(scope) ==
    /\ built
    /\ ScopeCall("begin_scope", scope, scope)

\* An end_scope without the test of the scope's name.
end_scope_unchecked(scope) ==
    /\ built
    /\ ScopeCall("end_scope", scope, EmptyStr)

\* core.FusionLogger.end_scope (FusionLogger.FusionLogger.end_scope has the
\* same text).
end_scope(scope) ==
    /\ built
    /\ ScopeCall("end_scope", scope,
                 IF logger.scope = scope THEN EmptyStr ELSE logger.scope)

\* ------------------------------------------ fusion_logger: one log call
\* How a call ends: it returns to its caller ("returned"), or an exception
\* leaves it ("OSError", "RuntimeError").
Ends(t, how) ==
    /\ pc' = [pc EXCEPT ![t] = "idle"]
    /\ outcome' = [outcome EXCEPT ![t] = how]
    /\ done' = IF rec[t] = NoRecord THEN done
               ELSE done \cup {[id |-> rec[t].id, files |-> iterSet[t], how |-> how]}
    /\ rec' = [rec EXCEPT ![t] = NoRecord]
    /\ out' = [out EXCEPT ![t] = EmptyStr]
    /\ iterSet' = [iterSet EXCEPT ![t] = {}]
    /\ todo' = [todo EXCEPT ![t] = {}]
    /\ cur' = [cur EXCEPT ![t] = ""]
    /\ buf' = [buf EXCEPT ![t] = << >>]

\* __log with "thread_id=threading.current_thread().ident": the record
\* carries the identity of the calling thread.
log_caller_tid(t, level, message) ==
    /\ built
    /\ pc[t] = "idle"
    /\ Len(called) < MaxCalls
    /\ called' = Append(called, [level |-> level, min_level |-> logger.min_level,
                                 by |-> t, message |-> message,
                                 name |-> logger.name, scope |-> logger.scope,
                                 files |-> logger.log_files])
    /\ IF is_enabled(level, logger.min_level)
       THEN /\ rec' = [rec EXCEPT ![t] =
                          [FusionLogRecord(Len(called) + 1, level, message, logger)
                              EXCEPT !.thread_id = thread_ident(t)]]
            /\ handed' = Append(handed, Len(called) + 1)
            /\ pc' = [pc EXCEPT ![t] = "apply_template"]
            /\ outcome' = [outcome EXCEPT ![t] = "running"]
            /\ UNCHANGED <<out, iterSet, todo, cur, buf, done>>
       ELSE /\ Ends(t, "returned")
            /\ UNCHANGED handed
    /\ UNCHANGED <<logger, built, lateOps, scopeOps, stdout, fs, handles>>
    /\ UNCHANGED <<workerVars, singletonVars, parse>>

\* core.FusionLogger.debug/info/warning/critical and __log: the level test,
\* the record, and the call of process_record.
log(t, level, message) ==
    /\ built
    /\ pc[t] = "idle"
    /\ Len(called) < MaxCalls
    /\ called' = Append(called, [level |-> level, min_level |-> logger.min_level,
                                 by |-> t, message |-> message,
                                 name |-> logger.name, scope |-> logger.scope,
                                 files |-> logger.log_files])
    /\ IF is_enabled(level, logger.min_level)
       THEN /\ rec' = [rec EXCEPT ![t] =
                          FusionLogRecord(Len(called) + 1, level, message, logger)]
            /\ handed' = Append(handed, Len(called) + 1)
            /\ pc' = [pc EXCEPT ![t] = "apply_template"]
            /\ outcome' = [outcome EXCEPT ![t] = "running"]
            /\ UNCHANGED <<out, iterSet, todo, cur, buf, done>>
       ELSE /\ Ends(t, "returned")
            /\ UNCHANGED handed
    /\ UNCHANGED <<logger, built, lateOps, scopeOps, stdout, fs, handles>>
    /\ UNCHANGED <<workerVars, singletonVars, parse>>

\* processors.FusionLogProcessor.process_record called with a record its
\* caller constructed, FusionLogRecord(logger=..., level=..., ...): the static
\* method takes any record, of any level enumeration.
process_record(t, level, message) ==
    /\ pc[t] = "idle"
    /\ Len(handed) < MaxCalls
    /\ rec' = [rec EXCEPT ![t] =
                  FusionLogRecord(Len(handed) + 1, level, message, logger)]
    /\ handed' = Append(handed, Len(handed) + 1)
    /\ pc' = [pc EXCEPT ![t] = "apply_template"]
    /\ outcome' = [outcome EXCEPT ![t] = "running"]
    /\ UNCHANGED <<logger, built, lateOps, scopeOps, called, out, iterSet, todo,
                   cur, buf, done, stdout, fs, handles>>
    /\ UNCHANGED <<workerVars, singletonVars, parse>>

\* processors.FusionLogProcessor.process_record, line 103: the render.
process_record_render(t) ==
    /\ pc[t] = "apply_template"
    /\ out' = [out EXCEPT ![t] = apply_template(logger.formatter.tokens, rec[t], logger)]
    /\ pc' = [pc EXCEPT ![t] = "print"]
    /\ UNCHANGED <<logger, built, lateOps, scopeOps, called, handed, rec, iterSet, todo, cur,
                   buf, outcome, done, stdout, fs, handles>>
    /\ UNCHANGED <<workerVars, singletonVars, parse>>

\* processors.FusionLogProcessor.process_record, line 104: print(out), and
\* line 105: the iterator of "for file in record.files".
process_record_print(t) ==
    /\ pc[t] = "print"
    /\ stdout' = Append(stdout, [id |-> rec[t].id, text |-> out[t], by |-> t])
    /\ iterSet' = [iterSet EXCEPT ![t] = record_files(rec[t])]
    /\ todo' = [todo EXCEPT ![t] = record_files(rec[t])]
    /\ pc' = [pc EXCEPT ![t] = "next"]
    /\ UNCHANGED <<logger, built, lateOps, scopeOps, called, handed, rec, out, cur, buf,
                   outcome, done, fs, handles>>
    /\ UNCHANGED <<workerVars, singletonVars, parse>>

\* The with block of line 106 left by an exception although the file object
\* is closed only after the last write ("f = open(...); ...; f.close()").
with_exit_leak(t, failed) ==
    IF failed THEN handles ELSE handles \ {<<t, cur[t]>>}

\* The end of the with block of line 106: the file object of the thread is
\* closed, whether the block ends normally or by an exception (failed).
with_exit(t, failed) == handles \ {<<t, cur[t]>>}

\* Line 105, one step of the for loop, and line 106, open(file, "a"). A set
\* iterator raises RuntimeError when the set changed size, yields the paths
\* in no fixed order, and ends the loop (and the call) when none is left; an
\* OSError of open leaves process_record and __log.
process_record_next(t) ==
    /\ pc[t] = "next"
    /\ IF record_files(rec[t]) # iterSet[t]
       THEN Ends(t, "RuntimeError") /\ UNCHANGED handles
       ELSE IF todo[t] = {}
       THEN Ends(t, "returned") /\ UNCHANGED handles
       ELSE \E file \in todo[t] :
               IF file \in Unwritable
               THEN Ends(t, "OSError") /\ UNCHANGED handles
               ELSE /\ cur' = [cur EXCEPT ![t] = file]
                    /\ todo' = [todo EXCEPT ![t] = @ \ {file}]
                    /\ buf' = [buf EXCEPT ![t] = << >>]
                    /\ handles' = handles \cup {<<t, file>>}
                    /\ pc' = [pc EXCEPT ![t] = "write_out"]
                    /\ UNCHANGED <<rec, out, iterSet, outcome, done>>
    /\ UNCHANGED <<logger, built, lateOps, scopeOps, called, handed, stdout, fs>>
    /\ UNCHANGED <<workerVars, singletonVars, parse>>

\* Line 107: opened_file.write(out). The text joins the file object's
\* buffer; a text longer than the buffer goes to the file at once (big). A
\* write that fails (the disk is full) raises OSError, which leaves the with
\* block, process_record and __log.
process_record_write_out(t) ==
    /\ pc[t] = "write_out"
    /\ \E fails \in BOOLEAN :
          IF fails
          THEN /\ Ends(t, "OSError")
               /\ handles' = with_exit(t, TRUE)
               /\ UNCHANGED fs
          ELSE /\ \E big \in BOOLEAN :
                     LET piece == [id |-> rec[t].id, kind |-> "out",
                                   text |-> out[t], by |-> t] IN
                     IF big
                     THEN /\ fs' = [fs EXCEPT ![cur[t]] = Append(@, piece)]
                          /\ UNCHANGED buf
                     ELSE /\ buf' = [buf EXCEPT ![t] = Append(@, piece)]
                          /\ UNCHANGED fs
               /\ pc' = [pc EXCEPT ![t] = "write_nl"]
               /\ UNCHANGED <<rec, out, iterSet, todo, cur, outcome, done, handles>>
    /\ UNCHANGED <<logger, built, lateOps, scopeOps, called, handed, stdout>>
    /\ UNCHANGED <<workerVars, singletonVars, parse>>

\* Line 108: opened_file.write("\n"), and the end of the with block of line
\* 106: the buffer is flushed and the file closed. When the write or the
\* flush fails, the buffered text is lost and OSError leaves the call.
process_record_write_nl(t) ==
    /\ pc[t] = "write_nl"
    /\ \E fails \in BOOLEAN :
          IF fails
          THEN /\ Ends(t, "OSError")
               /\ handles' = with_exit(t, TRUE)
               /\ UNCHANGED fs
          ELSE /\ fs' = [fs EXCEPT ![cur[t]] =
                            @ \o Append(buf[t], [id |-> rec[t].id, kind |-> "nl",
                                                 text |-> NL, by |-> t])]
               /\ buf' = [buf EXCEPT ![t] = << >>]
               /\ pc' = [pc EXCEPT ![t] = "next"]
               /\ handles' = with_exit(t, FALSE)
               /\ UNCHANGED <<rec, out, iterSet, todo, cur, outcome, done>>
    /\ UNCHANGED <<logger, built, lateOps, scopeOps, called, handed, stdout>>
    /\ UNCHANGED <<workerVars, singletonVars, parse>>

\* ------------------------------------------ parse_template, step by step
ParseUnchanged == UNCHANGED <<logger, coreVars, workerVars, singletonVars>>

\* processors.parse_template, lines 19-20: the call with its argument.
parse_template_call(template) ==
    [template |-> template, position |-> 0, before |-> 0, tokens |-> << >>,
     iterations |-> 0, state |-> "loop"]

\* Line 21 when the loop test passes, and lines 22-42: one iteration.
\* "before" keeps the position the iteration started at; the count of
\* iterations stops one past the template's length.
parse_template_iteration ==
    /\ parse.state = "loop"
    /\ parse.position < Len(parse.template)
    /\ parse.iterations <= Len(parse.template)
    /\ LET r == parse_step(parse.template, parse.position, parse.tokens) IN
       parse' = [parse EXCEPT !.position = r.position,
                              !.before = parse.position,
                              !.tokens = r.tokens,
                              !.iterations = @ + 1,
                              !.state = IF r.break THEN "returned" ELSE "loop"]
    /\ ParseUnchanged

\* Line 21 when the loop test fails, and line 43: return tokens.
parse_template_return ==
    /\ parse.state = "loop"
    /\ ~(parse.position < Len(parse.template))
    /\ parse' = [parse EXCEPT !.state = "returned"]
    /\ ParseUnchanged

\* ----------------------------------------------------------- Init values
CoreInit ==
    /\ built = FALSE
    /\ lateOps = 0
    /\ scopeOps = << >>
    /\ called = << >>
    /\ handed = << >>
    /\ pc = [t \in Threads |-> "idle"]
    /\ rec = [t \in Threads |-> NoRecord]
    /\ out = [t \in Threads |-> EmptyStr]
    /\ iterSet = [t \in Threads |-> {}]
    /\ todo = [t \in Threads |-> {}]
    /\ cur = [t \in Threads |-> ""]
    /\ buf = [t \in Threads |-> << >>]
    /\ outcome = [t \in Threads |-> "none"]
    /\ done = {}
    /\ stdout = << >>
    /\ fs = [p \in Paths |-> << >>]
    /\ handles = {}

WorkerIdle ==
    /\ queue = << >>
    /\ stop_event = FALSE
    /\ wpc = "none"
    /\ wrec = NoRecord
    /\ wout = EmptyStr
    /\ wlock = FALSE
    /\ stopSeen = FALSE
    /\ takenAfter = 0

\* The processor exists: FusionLogger.__init__ has called FusionLogProcessor().
SingletonBuilt ==
    /\ slock = 0
    /\ instances = 1
    /\ spc = [t \in Threads |-> "idle"]
    /\ sinst = [t \in Threads |-> 0]
    /\ sret = [t \in Threads |-> << >>]
    /\ nInit = 1
    /\ nQueues = 1
    /\ nWorkers = IF pkg = "fusion_logger" THEN 0 ELSE 1

SingletonIdle ==
    /\ slock = 0
    /\ instances = 0
    /\ spc = [t \in Threads |-> "idle"]
    /\ sinst = [t \in Threads |-> 0]
    /\ sret = [t \in Threads |-> << >>]
    /\ nInit = 0
    /\ nQueues = 0
    /\ nWorkers = 0

\* ------------------------------------------------- FusionLogger (legacy)
\* FusionLogger.FusionLogger.FusionLogger.__init__
LegacyLogger_init ==
    [name |-> <<"F", "u", "s", "i", "o", "n", "L", "o", "g", "g", "e", "r">>,
     scope |-> EmptyStr,
     min_level |-> "Info",
     hostname |-> <<"h", "o", "s", "t">>,
     pid |-> 42,
     tid |-> 7]

\* FusionLogger.FusionLogger.FusionLogger.__is_enabled (no caller in the package)
legacy_is_enabled(level, min_level) ==
    py_ge(legacy_value[level], legacy_value[min_level])

LegacyUnchanged ==
    UNCHANGED <<built, scopeOps, pc, rec, out, iterSet, todo, cur, buf, outcome, done, fs, handles,
                pkg, singletonVars, parse>>

\* FusionLogger.FusionLogger.FusionLogger.set_min_level
legacy_set_min_level(level) ==
    /\ lateOps < MaxLateOps
    /\ lateOps' = lateOps + 1
    /\ logger' = [logger EXCEPT !.min_level = level]
    /\ LegacyUnchanged
    /\ UNCHANGED <<called, handed, stdout, queue, stop_event, wpc, wrec, wout,
                   wlock, stopSeen, takenAfter>>

\* Queue.put on the processor's queue, and the histories of the call (with
\* whether a stop had been requested before it).
put_record(t, level, message) ==
    /\ Len(called) < MaxCalls
    /\ called' = Append(called, [level |-> level, min_level |-> logger.min_level,
                                 by |-> t, message |-> message,
                                 stopped |-> stop_event])
    /\ queue' = Append(queue, FusionLogRecord(Len(called) + 1, level, message, logger))
    /\ handed' = Append(handed, Len(called) + 1)
    /\ LegacyUnchanged
    /\ UNCHANGED <<logger, lateOps, stdout, stop_event, wpc, wrec, wout, wlock,
                   stopSeen, takenAfter>>

\* FusionLogger.FusionLogger.FusionLogger.debug/info/warning/critical and
\* __log, with FusionLogger.processors.FusionLogProcessor.enqueue_record.
legacy_log(t, level, message) ==
    /\ pkg = "processors"
    /\ put_record(t, level, message)

\* FusionLogger.FusionLogProcessor has no enqueue_record: a record reaches
\* its worker by a put on the processor's public "queue" attribute.
queue_put(t, level, message) ==
    /\ pkg = "FusionLogProcessor"
    /\ put_record(t, level, message)

\* FusionLogProcessor.kill_thread and ProcessingThread.stop
kill_thread ==
    /\ stop_event' = TRUE
    /\ LegacyUnchanged
    /\ UNCHANGED <<logger, lateOps, called, handed, stdout, queue, wpc, wrec,
                   wout, wlock, stopSeen, takenAfter>>

\* ProcessingThread.run, the loop test "while not self.stop_event.is_set()"
\* and, when it passes, "with self._lock".
run_test ==
    /\ wpc = "test"
    /\ IF stop_event
       THEN /\ wpc' = "exited"
            /\ stopSeen' = TRUE
            /\ UNCHANGED wlock
       ELSE /\ wpc' = "get"
            /\ wlock' = TRUE
            /\ UNCHANGED stopSeen
    /\ LegacyUnchanged
    /\ UNCHANGED <<logger, lateOps, called, handed, stdout, queue, stop_event,
                   wrec, wout, takenAfter>>

\* A get that reads the head of the queue and leaves it there.
run_get_peek ==
    /\ wpc = "get"
    /\ queue # << >>
    /\ wrec' = Head(queue)
    /\ takenAfter' = IF stop_event THEN takenAfter + 1 ELSE takenAfter
    /\ wpc' = "format"
    /\ LegacyUnchanged
    /\ UNCHANGED <<logger, lateOps, called, handed, stdout, stop_event, wout,
                   wlock, stopSeen, queue>>

\* ProcessingThread.run: record = self.queue.get(), which blocks while the
\* queue is empty.
run_get ==
    /\ wpc = "get"
    /\ queue # << >>
    /\ wrec' = Head(queue)
    /\ queue' = Tail(queue)
    /\ takenAfter' = IF stop_event THEN takenAfter + 1 ELSE takenAfter
    /\ wpc' = "format"
    /\ LegacyUnchanged
    /\ UNCHANGED <<logger, lateOps, called, handed, stdout, stop_event, wout,
                   wlock, stopSeen>>

\* ProcessingThread.run, the line after the get. processors.py:
\* out = record.logger.formatter.format(record). FusionLogProcessor.py:
\* out = self.process_record(record), which raises NotImplementedError: the
\* with block releases the lock and the exception ends the thread.
run_format ==
    /\ wpc = "format"
    /\ IF pkg = "processors"
       THEN /\ wout' = legacy_format(wrec)
            /\ wpc' = "print"
            /\ UNCHANGED <<wrec, wlock>>
       ELSE /\ wpc' = "died"
            /\ wlock' = FALSE
            /\ wrec' = NoRecord
            /\ UNCHANGED wout
    /\ LegacyUnchanged
    /\ UNCHANGED <<logger, lateOps, called, handed, stdout, queue, stop_event,
                   stopSeen, takenAfter>>

\* ProcessingThread.run: print(out), the end of the with block, and back to
\* the loop test.
run_print ==
    /\ wpc = "print"
    /\ stdout' = Append(stdout, [id |-> wrec.id, text |-> wout, by |-> WorkerThread])
    /\ wlock' = FALSE
    /\ wrec' = NoRecord
    /\ wout' = EmptyStr
    /\ wpc' = "test"
    /\ LegacyUnchanged
    /\ UNCHANGED <<logger, lateOps, called, handed, queue, stop_event, stopSeen,
                   takenAfter>>

run == run_test \/ run_get \/ run_format \/ run_print

\* --------------------------------------------------------- SingletonMeta
\* Whether FusionLogProcessor.__init__ of the module in use starts a
\* ProcessingThread (fusion_logger.processors makes the queue only).
StartsWorker == pkg # "fusion_logger"

SingletonUnchanged == UNCHANGED <<coreVars, logger, workerVars, parse>>

\* A __call__ whose with statement does not wait for the lock.
lock_acquire_unguarded(t) ==
    /\ slock' = t

\* "with cls._lock": entering takes the lock when no thread holds it.
lock_acquire(t) ==
    /\ slock = 0
    /\ slock' = t

\* SingletonMeta.__call__, entry: a thread calls FusionLogProcessor().
call_enter(t) ==
    /\ spc[t] = "idle"
    /\ Len(sret[t]) < MaxCtorCalls
    /\ lock_acquire(t)
    /\ spc' = [spc EXCEPT ![t] = "locked"]
    /\ UNCHANGED <<instances, sinst, sret, nInit, nQueues, nWorkers>>
    /\ SingletonUnchanged

\* "if cls not in cls._instances: instance = super().__call__(...)", which
\* runs FusionLogProcessor.__init__.
call_create(t) ==
    /\ spc[t] = "locked"
    /\ IF instances = 0
       THEN /\ sinst' = [sinst EXCEPT ![t] = nInit + 1]
            /\ nInit' = nInit + 1
            /\ nQueues' = nQueues + 1
            /\ nWorkers' = IF StartsWorker THEN nWorkers + 1 ELSE nWorkers
            /\ spc' = [spc EXCEPT ![t] = "created"]
       ELSE /\ spc' = [spc EXCEPT ![t] = "unlock"]
            /\ UNCHANGED <<sinst, nInit, nQueues, nWorkers>>
    /\ UNCHANGED <<slock, instances, sret>>
    /\ SingletonUnchanged

\* "cls._instances[cls] = instance"
call_store(t) ==
    /\ spc[t] = "created"
    /\ instances' = sinst[t]
    /\ spc' = [spc EXCEPT ![t] = "unlock"]
    /\ UNCHANGED <<slock, sinst, sret, nInit, nQueues, nWorkers>>
    /\ SingletonUnchanged

\* The end of the with block.
call_unlock(t) ==
    /\ spc[t] = "unlock"
    /\ slock' = 0
    /\ spc' = [spc EXCEPT ![t] = "return"]
    /\ UNCHANGED <<instances, sinst, sret, nInit, nQueues, nWorkers>>
    /\ SingletonUnchanged

\* "return cls._instances[cls]"
call_return(t) ==
    /\ spc[t] = "return"
    /\ sret' = [sret EXCEPT ![t] = Append(@, instances)]
    /\ sinst' = [sinst EXCEPT ![t] = 0]
    /\ spc' = [spc EXCEPT ![t] = "idle"]
    /\ UNCHANGED <<slock, instances, nInit, nQueues, nWorkers>>
    /\ SingletonUnchanged

\* ------------------------------------------- specification: fusion_logger
\* After FusionLoggerBuilder(): the logger with its defaults, the singleton
\* processor constructed (one Queue, no thread).
Init ==
    /\ logger = FusionLogger_init
    /\ CoreInit
    /\ pkg = "fusion_logger"
    /\ WorkerIdle
    /\ SingletonBuilt
    /\ parse = NotParsing

Next ==
    \/ \E level \in FusionLogLevel : set_min_level(level)
    \/ \E template \in Templates : set_formatter(template)
    \/ \E path \in Paths : write_to_file(path)
    \/ \E args \in PathLists : write_to_files(args)
    \/ build
    \/ \E t \in Threads, level \in FusionLogLevel, message \in Messages :
          log(t, level, message)
    \/ \E t \in Threads : process_record_render(t)
    \/ \E t \in Threads : process_record_print(t)
    \/ \E t \in Threads : process_record_next(t)
    \/ \E t \in Threads : process_record_write_out(t)
    \/ \E t \in Threads : process_record_write_nl(t)

Spec == Init /\ [][Next]_vars

\* ------------------------------------ specification: name, scope and render
\* After
\* FusionLoggerBuilder().set_formatter(FusionLogFormatter("{NAME}:{SCOPE}")).
ScopeInit ==
    /\ logger = [FusionLogger_init EXCEPT !.formatter = FusionLogFormatter(T_NAME_SCOPE)]
    /\ CoreInit
    /\ pkg = "fusion_logger"
    /\ WorkerIdle
    /\ SingletonBuilt
    /\ parse = NotParsing

\* The builder's and the logger's operations on the logger's attributes.
ScopeNext ==
    \/ \E name \in Names : set_name(name)
    \/ \E level \in FusionLogLevel : set_min_level(level)
    \/ \E path \in Paths : write_to_file(path)
    \/ build
    \/ \E scope \in Scopes : begin_scope(scope)
    \/ \E scope \in Scopes : end_scope(scope)

ScopeSpec == ScopeInit /\ [][ScopeNext]_vars

\* The fusion_logger pipeline with the operations on name and scope, and
\* info() as the log call.
ScopeLogNext ==
    \/ \E name \in Names : set_name(name)
    \/ build
    \/ \E scope \in Scopes : begin_scope(scope)
    \/ \E scope \in Scopes : end_scope(scope)
    \/ \E t \in Threads, message \in Messages : log(t, "INFO", message)
    \/ \E t \in Threads : process_record_render(t)
    \/ \E t \in Threads : process_record_print(t)
    \/ \E t \in Threads : process_record_next(t)

ScopeLogSpec == ScopeInit /\ [][ScopeLogNext]_vars

\* ------------------------------- specification: the logger's identity
\* The operations of the builder and of the logger that set the name, the
\* minimum level, the formatter and the scope, made by the thread that
\* constructed the logger, and the info calls of another thread (the logger
\* has no file).
IdentityCallers == {2}

IdentityNext ==
    \/ \E name \in Names : set_name(name)
    \/ set_min_level("DEBUG")
    \/ set_formatter(T_NAME_SCOPE)
    \/ build
    \/ begin_scope(<<"a">>)
    \/ end_scope(<<"a">>)
    \/ \E t \in IdentityCallers, message \in Messages : log(t, "INFO", message)
    \/ \E t \in Threads : process_record_render(t)
    \/ \E t \in Threads : process_record_print(t)
    \/ \E t \in Threads : process_record_next(t)

IdentitySpec == Init /\ [][IdentityNext]_vars

\* ------------------------------------------ specification: the sink files
\* Loggers with every file set the builder can give them; info calls of two
\* threads with the whole of process_record, writes that fail included.
FileCallers == {1, 2}

FileNext ==
    \/ \E path \in Paths : write_to_file(path)
    \/ build
    \/ \E t \in FileCallers, message \in Messages : log(t, "INFO", message)
    \/ \E t \in Threads : process_record_render(t)
    \/ \E t \in Threads : process_record_print(t)
    \/ \E t \in Threads : process_record_next(t)
    \/ \E t \in Threads : process_record_write_out(t)
    \/ \E t \in Threads : process_record_write_nl(t)

FileSpec == Init /\ [][FileNext]_vars

\* -------------------------------------- specification: the default logger
\* FusionLoggerBuilder().build(), with or without set_name: no minimum
\* level, formatter or file is set. Every thread logs at every level.
DefaultsNext ==
    \/ \E name \in Names : set_name(name)
    \/ build
    \/ \E t \in Threads, level \in FusionLogLevel, message \in Messages :
          log(t, level, message)
    \/ \E t \in Threads : process_record_render(t)
    \/ \E t \in Threads : process_record_print(t)
    \/ \E t \in Threads : process_record_next(t)

DefaultsSpec == Init /\ [][DefaultsNext]_vars

\* --------------------------------------------- specification: templates
\* A logger whose formatter is FusionLogFormatter(template), for every
\* template of TemplateInputs; records of every level of every enumeration
\* are rendered with it and printed.
TemplateInit ==
    /\ \E template \in TemplateInputs :
          logger = [FusionLogger_init EXCEPT !.formatter = FusionLogFormatter(template)]
    /\ CoreInit
    /\ pkg = "fusion_logger"
    /\ WorkerIdle
    /\ SingletonBuilt
    /\ parse = NotParsing

TemplateNext ==
    \/ \E t \in TemplateCallers, level \in AnyLogLevel, message \in TemplateMessages :
          process_record(t, level, message)
    \/ \E t \in Threads : process_record_render(t)
    \/ \E t \in Threads : process_record_print(t)
    \/ \E t \in Threads : process_record_next(t)

TemplateSpec == TemplateInit /\ [][TemplateNext]_vars

\* -------------------------------------- specification: FusionLogger (legacy)
\* After FusionLogger(): FusionLogProcessor.__init__ made the queue and
\* started the ProcessingThread, which is at its loop test.
LegacyInit ==
    /\ logger = LegacyLogger_init
    /\ CoreInit
    /\ pkg \in {"processors", "FusionLogProcessor"}
    /\ queue = << >>
    /\ stop_event = FALSE
    /\ wpc = "test"
    /\ wrec = NoRecord
    /\ wout = EmptyStr
    /\ wlock = FALSE
    /\ stopSeen = FALSE
    /\ takenAfter = 0
    /\ SingletonBuilt
    /\ parse = NotParsing

LegacyNext ==
    \/ \E level \in LegacyLogLevel : legacy_set_min_level(level)
    \/ \E t \in Threads, level \in LegacyLogLevel, message \in Messages :
          legacy_log(t, level, message)
    \/ \E t \in Threads, level \in LegacyLogLevel, message \in Messages :
          queue_put(t, level, message)
    \/ kill_thread
    \/ run_test
    \/ run_get
    \/ run_format
    \/ run_print

LegacySpec == LegacyInit /\ [][LegacyNext]_vars

\* The scheduler runs the worker thread whenever it can take a step.
LegacyFairSpec == LegacySpec /\ WF_vars(run)

\* ------------------- specification: FusionLogger.processors (legacy) alone
ProcessorsInit ==
    /\ LegacyInit
    /\ pkg = "processors"

ProcessorsNext ==
    \/ \E t \in Threads, message \in Messages : legacy_log(t, "Info", message)
    \/ kill_thread
    \/ run_test
    \/ run_get
    \/ run_format
    \/ run_print

ProcessorsSpec == ProcessorsInit /\ [][ProcessorsNext]_vars

\* ---------------------------------------- specification: parse_template
\* A call of parse_template for every template of TemplateInputs.
ParseInit ==
    /\ logger = FusionLogger_init
    /\ CoreInit
    /\ pkg = "fusion_logger"
    /\ WorkerIdle
    /\ SingletonBuilt
    /\ \E template \in TemplateInputs : parse = parse_template_call(template)

ParseNext ==
    \/ parse_template_iteration
    \/ parse_template_return

ParseSpec == ParseInit /\ [][ParseNext]_vars

\* ------------------------------------------- specification: SingletonMeta
\* Before the first FusionLogProcessor() call of the process.
SingletonInit ==
    /\ logger = FusionLogger_init
    /\ CoreInit
    /\ pkg \in {"fusion_logger", "processors", "FusionLogProcessor"}
    /\ WorkerIdle
    /\ SingletonIdle
    /\ parse = NotParsing

SingletonNext ==
    \/ \E t \in Threads : call_enter(t)
    \/ \E t \in Threads : call_create(t)
    \/ \E t \in Threads : call_store(t)
    \/ \E t \in Threads : call_unlock(t)
    \/ \E t \in Threads : call_return(t)

SingletonSpec == SingletonInit /\ [][SingletonNext]_vars

\* ================================================================= claims
\* The position of record id x in a sequence of ids.
Pos(s, x) == CHOOSE i \in 1..Len(s) : s[i] = x
Ids(s) == {s[i].id : i \in 1..Len(s)}
Count(s, id, kind) == Cardinality({i \in 1..Len(s) : s[i].id = id /\ s[i].kind = kind})
Printed(id) == Cardinality({i \in 1..Len(stdout) : stdout[i].id = id})
\* The pieces of a sequence come in the order their records were handed over.
InHandedOrder(s) ==
    \A i, j \in 1..Len(s) : i < j => Pos(handed, s[i].id) <= Pos(handed, s[j].id)
\* File p holds the line of record id: its text, then at once its newline.
HasLine(p, id) ==
    \E i \in 1..(Len(fs[p]) - 1) :
        /\ fs[p][i].id = id /\ fs[p][i].kind = "out"
        /\ fs[p][i + 1].id = id /\ fs[p][i + 1].kind = "nl"
\* Ids of the records the worker took off the queue.
Dequeued == RangeOf(handed) \ Ids(queue)

\* C1 (as claimed, on FusionLogger.FusionLogger.__log): a log call of level
\* L made while the minimum level is M hands a record to the processor if
\* and only if L.value >= M.value.
C1_HandedIffEnabled_Legacy ==
    \A i \in 1..Len(called) :
        py_comparable(legacy_value[called[i].level], legacy_value[called[i].min_level])
        => ((i \in RangeOf(handed))
              <=> legacy_is_enabled(called[i].level, called[i].min_level))

\* C1 on fusion_logger.core.FusionLogger.__log: the same statement, which
\* holds there (the call number is the record id).
C1_HandedIffEnabled_Core ==
    \A i \in 1..Len(called) :
        (i \in RangeOf(handed)) <=> value[called[i].level] >= value[called[i].min_level]

\* C2 (as claimed): records are output in one global FIFO order: on stdout
\* and in every file the lines appear in the order in which their records
\* were handed to the processor, for any mix of caller threads.
C2_GlobalFifo ==
    /\ InHandedOrder(stdout)
    /\ \A p \in Paths : InHandedOrder(fs[p])

\* C3 (as claimed): every render and every write to stdout or to a file is
\* performed by the single consumer worker, never by the thread that
\* called debug/info/warning/critical, which only hands the record over.
C3_OnlyWorkerRendersAndWrites ==
    /\ \A t \in Threads : pc[t] = "idle"
    /\ \A i \in 1..Len(stdout) : stdout[i].by = WorkerThread
    /\ \A p \in Paths : \A i \in 1..Len(fs[p]) : fs[p][i].by = WorkerThread

\* C4 (as claimed): no two writers are inside the open/write/write/close
\* section of the same file at the same time, and in every file the text of
\* a record is immediately followed by its own newline.
C4_FileSectionExclusive ==
    /\ \A t, u \in Threads :
          (t # u /\ pc[t] \in InFile /\ pc[u] \in InFile) => cur[t] # cur[u]
    /\ \A p \in Paths : \A i \in 1..Len(fs[p]) :
          (fs[p][i].kind = "out" /\ i < Len(fs[p]))
          => (fs[p][i + 1].id = fs[p][i].id /\ fs[p][i + 1].kind = "nl")

\* C5: for any number of threads calling FusionLogProcessor() concurrently,
\* __init__ runs at most once, every caller receives the same instance, and
\* at most one queue and at most one worker thread exist.
C5_Singleton ==
    /\ nInit <= 1
    /\ nQueues <= 1
    /\ nWorkers <= 1
    /\ \A t \in Threads : \A i \in 1..Len(sret[t]) : sret[t][i] = 1

\* C5, its case: every thread has been given an instance by a constructor
\* call, a further call is about to return, and the one __init__ that ran
\* started a worker thread.
C5_Witness ==
    /\ \A t \in Threads : Len(sret[t]) >= 1
    /\ \E t \in Threads : spc[t] = "return"
    /\ nInit = 1
    /\ nWorkers = 1

\* C6 (as claimed): when opening one file of a record fails, the remaining
\* files of that record are still written, and every record whose call
\* has ended was printed.
C6_FailureCaughtPerFile ==
    \A d \in done :
        /\ Printed(d.id) = 1
        /\ d.how = "OSError" => \A p \in d.files \ Unwritable : HasLine(p, d.id)

\* C7 (as claimed): a log call returns normally to its caller even when a
\* file of the logger's file set cannot be opened.
C7_FailureNotPropagated ==
    \A t \in Threads : outcome[t] # "OSError"

\* C8 (as claimed): every record that passed the level filter is printed
\* to stdout, and its line (text, then one newline) is appended exactly once
\* to each distinct path of its file set.
C8_FanOut ==
    \A d \in done :
        /\ Printed(d.id) = 1
        /\ \A p \in d.files \ Unwritable :
              /\ HasLine(p, d.id)
              /\ Count(fs[p], d.id, "out") = 1
              /\ Count(fs[p], d.id, "nl") = 1

\* C9 (as claimed): after a stop request the worker eventually leaves its
\* run loop, whatever the queue holds, also when it is empty for ever.
C9_StopLeadsToExit == stop_event ~> (wpc \in {"exited", "died"})

\* C10 (as claimed): a record the worker has dequeued is always rendered and
\* printed before the worker exits, and once the worker has seen the stop
\* signal it dequeues no further record.
C10_CooperativeStop ==
    /\ wpc \in {"exited", "died"} => \A id \in Dequeued : Printed(id) = 1
    /\ stopSeen => wpc = "exited"

\* C10 on FusionLogger.processors.ProcessingThread.run alone, where the
\* statement holds.
C10_CooperativeStop_Processors ==
    pkg = "processors" => C10_CooperativeStop

\* The logger as it was when log call i was made, for name and scope.
AtCall(i) == [logger EXCEPT !.name = called[i].name, !.scope = called[i].scope]
\* The record of log call i.
RecordOf(i) == FusionLogRecord(i, called[i].level, called[i].message, logger)

\* C11 (as claimed): the text printed for a record is its formatter's
\* template rendered with the name and the scope the logger had when the
\* logger method was called, whatever begin_scope, end_scope or set_name did
\* between the call and the render.
C11_NameScopeAtCall ==
    \A k \in 1..Len(stdout) :
        stdout[k].text = apply_template(logger.formatter.tokens,
                                        RecordOf(stdout[k].id), AtCall(stdout[k].id))

\* The paths that hold a piece of record id.
WrittenTo(id) == {p \in Paths : \E k \in 1..Len(fs[p]) : fs[p][k].id = id}

\* C12 (as claimed): a record is written to the files the logger's file set
\* held at the log call, and to no path added to the set after the call.
C12_FilesAtCall ==
    /\ \A p \in Paths : \A k \in 1..Len(fs[p]) : p \in called[fs[p][k].id].files
    /\ \A d \in done : d.how # "OSError" => WrittenTo(d.id) = called[d.id].files

\* C13: end_scope(x) sets the scope to the empty string when the scope is
\* exactly x and leaves it as it is otherwise; name, min_level, formatter
\* and file set are the same after the call as before it.
C13_EndScope ==
    \A k \in 1..Len(scopeOps) :
        scopeOps[k].op = "end_scope"
        => scopeOps[k].after =
              [scopeOps[k].before EXCEPT
                  !.scope = IF @ = scopeOps[k].arg THEN EmptyStr ELSE @]

\* C13, its case: on a logger with a name, a minimum level, a formatter and
\* a file set, one end_scope
\* named the active scope and cleared it, another named a different scope
\* than the active one and left it.
C13_Witness ==
    /\ logger.name \in Names
    /\ logger.min_level = "WARNING"
    /\ logger.log_files = {"a.log"}
    /\ logger.formatter.template = T_NAME_SCOPE
    /\ \E j, k \in 1..Len(scopeOps) :
          /\ scopeOps[j].op = "end_scope" /\ scopeOps[k].op = "end_scope"
          /\ scopeOps[j].before.scope = scopeOps[j].arg
          /\ scopeOps[j].after.scope = EmptyStr
          /\ scopeOps[k].before.scope \notin {scopeOps[k].arg, EmptyStr}
          /\ scopeOps[k].after.scope = scopeOps[k].before.scope

\* The index of the most recent begin_scope in a history of scope calls, 0
\* when there is none.
LastBegin(h) ==
    LET B == {k \in 1..Len(h) : h[k].op = "begin_scope"}
    IN  IF B = {} THEN 0 ELSE CHOOSE k \in B : \A j \in B : j <= k

\* C14: the scope is a single slot: after any sequence of begin_scope and
\* end_scope calls it is the argument of the most recent begin_scope, or the
\* empty string when an end_scope of that name came after it (or there was
\* no begin_scope); an outer scope is never restored.
C14_SingleSlot ==
    LET b == LastBegin(scopeOps) IN
    logger.scope =
        IF b = 0 THEN EmptyStr
        ELSE IF \E j \in (b + 1)..Len(scopeOps) :
                   scopeOps[j].op = "end_scope" /\ scopeOps[j].arg = scopeOps[b].arg
             THEN EmptyStr
             ELSE scopeOps[b].arg

\* C14, its case: begin_scope(a); begin_scope(b); end_scope(b) were called
\* and the scope is empty, not a.
C14_Witness ==
    /\ Len(scopeOps) = 3
    /\ scopeOps[1].op = "begin_scope" /\ scopeOps[1].arg = <<"a">>
    /\ scopeOps[2].op = "begin_scope" /\ scopeOps[2].arg = <<"b">>
    /\ scopeOps[3].op = "end_scope" /\ scopeOps[3].arg = <<"b">>
    /\ logger.scope = EmptyStr

\* ----------------------------------------------------- claims on templates
\* The characters of a text.
Chars(text) == {text[i] : i \in 1..Len(text)}
\* The texts of a sequence, one after the other.
RECURSIVE Flatten(_)
Flatten(texts) == IF texts = << >> THEN << >> ELSE Head(texts) \o Flatten(Tail(texts))
\* The last n characters of a text.
Suffix(text, n) == SubSeq(text, Len(text) - n + 1, Len(text))
\* The four-character label of the member names, as the names are written.
NamePrefix ==
    [l \in AnyLogLevel |->
        CASE l = "DEBUG" -> <<"D", "E", "B", "U">> [] l = "INFO" -> <<"I", "N", "F", "O">>
          [] l = "WARNING" -> <<"W", "A", "R", "N">> [] l = "CRITICAL" -> <<"C", "R", "I", "T">>
          [] l = "Debug" -> <<"D", "e", "b", "u">> [] l = "Info" -> <<"I", "n", "f", "o">>
          [] l = "Warning" -> <<"W", "a", "r", "n">> [] l = "Critical" -> <<"C", "r", "i", "t">>]
\* The upper-case label of a level, whatever the case of its member name.
UpperLabel ==
    [l \in AnyLogLevel |->
        CASE l \in {"DEBUG", "Debug"} -> <<"D", "E", "B", "U">> [] l \in {"INFO", "Info"} -> <<"I", "N", "F", "O">>
          [] l \in {"WARNING", "Warning"} -> <<"W", "A", "R", "N">>
          [] l \in {"CRITICAL", "Critical"} -> <<"C", "R", "I", "T">>]
\* What a record gives for a key, at the logger lg.
PlaceholderValue(key, record, lg) ==
    IF key = K_NAME THEN lg.name
    ELSE IF key = K_SCOPE THEN lg.scope
    ELSE IF key = K_LEVEL THEN NamePrefix[record.level]
    ELSE IF key = K_HOSTNAME THEN record.hostname
    ELSE IF key = K_MESSAGE THEN record.message
    ELSE IF key = K_TIMESTAMP THEN strftime(record.timestamp)
    ELSE IF key = K_PID THEN str(record.process_id)
    ELSE IF key = K_TID THEN str(record.thread_id)
    ELSE UNKNOWN_FORMAT
\* What one token contributes to the output.
Contribution(token, record, lg) ==
    IF token.type = "Literal" THEN token.text
    ELSE PlaceholderValue(token.text, record, lg)
\* A thread holds the text it rendered for its record and has not printed it.
Rendered(t) == pc[t] = "print"

\* C15: apply_template returns the left-to-right concatenation of the
\* contributions of the compiled tokens, a literal's text as it is and a
\* placeholder's value from the record; "[{LEVEL}] {MESSAGE}" rendered for a
\* record of level WARNING with message "disk low" gives "[WARN] disk low".
C15_Concatenation ==
    \A t \in Threads : Rendered(t) =>
        /\ out[t] = Flatten([k \in 1..Len(logger.formatter.tokens) |->
                                Contribution(logger.formatter.tokens[k], rec[t], logger)])
        /\ (/\ logger.formatter.template = T_LEVEL_MESSAGE
            /\ rec[t].level = "WARNING"
            /\ rec[t].message = <<"d", "i", "s", "k", " ", "l", "o", "w">>)
           => out[t] = <<"[", "W", "A", "R", "N", "]", " ", "d", "i", "s", "k", " ", "l", "o", "w">>

\* C15, its case: the example of the claim has been rendered.
C15_Witness ==
    \E t \in Threads :
        /\ Rendered(t)
        /\ logger.formatter.template = T_LEVEL_MESSAGE
        /\ rec[t].level = "WARNING"
        /\ out[t] = <<"[", "W", "A", "R", "N", "]", " ", "d", "i", "s", "k", " ", "l", "o", "w">>

\* The 1-based places of the "{" of a template that no "}" follows.
Unterminated(template) ==
    {i \in 1..Len(template) :
        /\ template[i] = "{"
        /\ \A j \in (i + 1)..Len(template) : template[j] # "}"}
First(S) == CHOOSE i \in S : \A j \in S : i <= j

\* C16: when a "{" of the template has no "}" after it, the rest of the
\* template from that "{" on is the last token, a LiteralToken, and the
\* rendered output ends with that text as it stands in the template.
C16_UnterminatedIsLiteral ==
    LET template == logger.formatter.template
        tokens == logger.formatter.tokens
        U == Unterminated(template)
    IN  U # {} =>
           LET rest == SubSeq(template, First(U), Len(template)) IN
           /\ tokens # << >>
           /\ tokens[Len(tokens)] = LiteralToken(rest)
           /\ \A t \in Threads : Rendered(t) =>
                 /\ Len(out[t]) >= Len(rest)
                 /\ Suffix(out[t], Len(rest)) = rest

\* C16, its case: "[{LEVEL}] {KEY" has been rendered for a record.
C16_Witness ==
    \E t \in Threads :
        /\ Rendered(t)
        /\ logger.formatter.template = T_UNMATCHED
        /\ rec[t].level = "INFO"
        /\ out[t] = <<"[", "I", "N", "F", "O", "]", " ", "{", "K", "E", "Y">>

\* C17 (as claimed): only the innermost "{...}" forms a placeholder: no
\* FormatToken's key contains "{" or "}", and "{{LEVEL}" compiles to the
\* literal "{" followed by the placeholder LEVEL.
C17_InnermostPlaceholder ==
    LET tokens == logger.formatter.tokens IN
    /\ \A k \in 1..Len(tokens) :
          tokens[k].type = "Format" => Chars(tokens[k].text) \cap {"{", "}"} = {}
    /\ logger.formatter.template = T_NESTED
       => tokens = <<LiteralToken(<<"{">>), FormatToken(K_LEVEL)>>

\* The place in the template (0-based) where token k starts.
StartOf(tokens, k) ==
    Len(Flatten([j \in 1..(k - 1) |->
                    IF tokens[j].type = "Literal" THEN tokens[j].text
                    ELSE <<"{">> \o tokens[j].text \o <<"}">>]))

\* C17 (amended): a placeholder runs from a "{" to the first "}" after it,
\* whatever lies between: a FormatToken's key is the text between the two
\* and never contains "}", but it contains every "{" that comes before that
\* "}"; "{{LEVEL}" compiles to the one placeholder of key "{LEVEL", which
\* renders UNKNOWN_FORMAT.
C17_FirstClosingBrace ==
    LET template == logger.formatter.template
        tokens == logger.formatter.tokens
    IN  /\ \A k \in 1..Len(tokens) :
              tokens[k].type = "Format" =>
                 LET at == StartOf(tokens, k) IN
                 /\ template[at + 1] = "{"
                 /\ find(template, "}", at) = at + 1 + Len(tokens[k].text)
                 /\ tokens[k].text = slice(template, at + 1, at + 1 + Len(tokens[k].text))
        /\ template = T_NESTED =>
              /\ tokens = <<FormatToken(<<"{", "L", "E", "V", "E", "L">>)>>
              /\ \A t \in Threads : Rendered(t) => out[t] = UNKNOWN_FORMAT

\* C17, its case: "{{LEVEL}" has been compiled and rendered for a record.
C17_Witness ==
    \E t \in Threads :
        /\ Rendered(t)
        /\ logger.formatter.template = T_NESTED
        /\ logger.formatter.tokens = <<FormatToken(<<"{", "L", "E", "V", "E", "L">>)>>
        /\ out[t] = UNKNOWN_FORMAT

\* C18: compilation loses no text: the LiteralTokens' texts and
\* "{" + key + "}" for the FormatTokens, in order, give back the template.
C18_NoTextLost ==
    LET tokens == logger.formatter.tokens IN
    Flatten([k \in 1..Len(tokens) |->
                IF tokens[k].type = "Literal" THEN tokens[k].text
                ELSE <<"{">> \o tokens[k].text \o <<"}">>])
        = logger.formatter.template

\* C18, its case: "}{A}", a stray "}" before a placeholder, has been
\* compiled to a literal and a placeholder, and rendered.
C18_Witness ==
    /\ logger.formatter.template = <<"}", "{", "A", "}">>
    /\ logger.formatter.tokens = <<LiteralToken(<<"}">>), FormatToken(<<"A">>)>>
    /\ \E t \in Threads : Rendered(t)

\* C19: a placeholder whose key is not exactly one of the eight keys, the
\* empty key of "{}" and keys in another case included, contributes
\* UNKNOWN_FORMAT: a template of n such placeholders renders as n times
\* UNKNOWN_FORMAT.
C19_UnknownKey ==
    LET tokens == logger.formatter.tokens IN
    (\A k \in 1..Len(tokens) :
        tokens[k].type = "Format" /\ tokens[k].text \notin KnownKeys)
    => \A t \in Threads : Rendered(t) =>
          out[t] = Flatten([k \in 1..Len(tokens) |-> UNKNOWN_FORMAT])

\* C19, its case: "{}{level}{BOGUS}" has been rendered for a record.
C19_Witness ==
    \E t \in Threads :
        /\ Rendered(t)
        /\ logger.formatter.template = T_UNKNOWNS
        /\ Len(logger.formatter.tokens) = 3
        /\ out[t] = UNKNOWN_FORMAT \o UNKNOWN_FORMAT \o UNKNOWN_FORMAT

C21_EmptyTemplate ==
    logger.formatter.template = EmptyStr
        => /\ logger.formatter.tokens = << >>
           /\ \A t \in Threads : Rendered(t) => out[t] = EmptyStr

\* A record with a message has been rendered by the formatter of the empty
\* template.
C21_Witness ==
    /\ logger.formatter.template = EmptyStr
    /\ \E t \in Threads : /\ Rendered(t)
                          /\ rec[t].message # EmptyStr
                          /\ out[t] = EmptyStr

\* C22: rendering is idempotent: while a thread holds the string its call of
\* apply_template returned, a second call with the same formatter and the
\* same record returns the identical string.
C22_SecondCallIdentical ==
    \A t \in Threads :
        Rendered(t) =>
            apply_template(logger.formatter.tokens, rec[t], logger) = out[t]

\* C22, the part that holds: the call of apply_template changes no field of
\* the record, of the logger or of its formatter and tokens.
C22_RenderChangesNothing ==
    [][\A t \in Threads :
          process_record_render(t) => /\ logger' = logger
                                      /\ rec' = rec]_vars

\* C23 (as claimed): a record that has been handed to the processor keeps
\* the value of every field it was constructed with, its files included,
\* whatever the processor and later logger or builder operations do.
C23_RecordNeverChanged ==
    \A t \in Threads :
        rec[t] # NoRecord =>
            /\ rec[t] = RecordOf(rec[t].id)
            /\ record_files(rec[t]) = called[rec[t].id].files

HandlesOf(t) == {h \in handles : h[1] = t}

\* C25: a thread holds a file object only inside the with block of one file
\* of its record, and then exactly that one; outside it (between two files,
\* between two records, after a write that failed) it holds none, so no sink
\* file is open whenever no thread is inside a with block.
C25_NoHandleHeld ==
    /\ \A t \in Threads :
          HandlesOf(t) = IF pc[t] \in InFile THEN {<<t, cur[t]>>} ELSE {}
    /\ (\A t \in Threads : pc[t] \notin InFile) => Cardinality(handles) = 0

\* C25, its case: a write to an opened file has failed (the call ended with
\* OSError although every path of its record can be opened), another record
\* was written, and no file is open.
C25_Witness ==
    /\ \E d \in done : /\ d.how = "OSError"
                        /\ d.files # {}
                        /\ d.files \cap Unwritable = {}
    /\ \E d \in done : d.how = "returned" /\ WrittenTo(d.id) # {}
    /\ \A t \in Threads : pc[t] = "idle"
    /\ handles = {}

\* The worker prints only records that were handed to the processor, and
\* none of them twice.
NoDuplicate ==
    /\ \A k \in 1..Len(stdout) : stdout[k].id \in RangeOf(handed)
    /\ \A id \in RangeOf(handed) : Printed(id) <= 1

\* C26 (as claimed): no record is printed twice and none that was not handed
\* over, and every record handed to the processor before any stop request
\* is rendered and printed: once the worker has left its loop, each of them
\* is on stdout exactly once.
C26_NoLoss ==
    /\ NoDuplicate
    /\ wpc = "exited" =>
          \A id \in RangeOf(handed) : ~called[id].stopped => Printed(id) = 1

\* C26 (amended): no record is printed twice and none that was not handed
\* over; a record the worker took from the queue is on stdout exactly once,
\* rendered from its message, as soon as the worker is back at its loop test
\* (before that it is the record in the worker's hands); a record still in
\* the queue has not been printed.
C26_NoLossOfDequeued ==
    /\ NoDuplicate
    /\ \A id \in Dequeued :
          Printed(id) = IF wrec # NoRecord /\ wrec.id = id THEN 0 ELSE 1
    /\ \A id \in Ids(queue) : Printed(id) = 0
    /\ \A k \in 1..Len(stdout) :
          stdout[k].text = legacy_format([message |-> called[stdout[k].id].message])
    /\ wpc \in {"test", "get", "exited"} => wrec = NoRecord

\* C26, its case: two records were handed over before the stop request; the
\* worker printed one, saw the stop and left its loop with the other still
\* in the queue.
C26_Witness ==
    /\ wpc = "exited"
    /\ Len(handed) = 2
    /\ \A id \in RangeOf(handed) : ~called[id].stopped
    /\ Printed(handed[1]) = 1
    /\ Ids(queue) = {handed[2]}

\* C26 on fusion_logger.processors.FusionLogProcessor.process_record, which
\* has no queue and no stop: a record passed to it is printed once before
\* the call ends, however the call ends.
C26_NoLoss_Core ==
    /\ NoDuplicate
    /\ \A d \in done : Printed(d.id) = 1

\* The record the worker dequeued last (the queue is first in, first out).
LastDequeued == handed[Cardinality(Dequeued)]

\* C27, the part that holds in both modules: after the stop request the
\* worker dequeues at most one record.
C27_AtMostOneAfterStop == takenAfter <= 1

\* C27 (as claimed): after the stop request the worker dequeues at most one
\* record, and the one it dequeues is printed: when the worker's thread has
\* ended after such a dequeue, that record is on stdout.
C27_OneMoreRecord ==
    /\ C27_AtMostOneAfterStop
    /\ (takenAfter = 1 /\ wpc \in {"exited", "died"}) => Printed(LastDequeued) = 1

\* C27 on FusionLogger.processors.ProcessingThread.run alone, where the
\* statement holds.
C27_OneMoreRecord_Processors == pkg = "processors" => C27_OneMoreRecord

\* C28: a logger left at its defaults has minimum level INFO, no file and
\* the formatter of the empty template; its debug calls hand no record over,
\* its info, warning and critical calls do, each of these prints the empty
\* string, once, and nothing is written to any file.
C28_Defaults ==
    /\ logger.min_level = "INFO"
    /\ logger.log_files = {}
    /\ logger.formatter = FusionLogFormatter(EmptyStr)
    /\ logger.formatter.tokens = << >>
    /\ \A i \in 1..Len(called) :
          (i \in RangeOf(handed)) <=> called[i].level # "DEBUG"
    /\ \A k \in 1..Len(stdout) : stdout[k].text = EmptyStr
    /\ \A d \in done : Printed(d.id) = 1 /\ d.how = "returned"
    /\ \A p \in Paths : fs[p] = << >>
    /\ handles = {}

\* C28, its case: a debug call was dropped, and an info call has ended with
\* the empty string printed for it.
C28_Witness ==
    \E i, j \in 1..Len(called) :
        /\ called[i].level = "DEBUG"
        /\ i \notin RangeOf(handed)
        /\ called[j].level = "INFO"
        /\ \E d \in done : d.id = j
        /\ \E k \in 1..Len(stdout) : stdout[k].id = j /\ stdout[k].text = EmptyStr

\* C29: parse_template makes at most len(template) iterations of its loop:
\* an iteration that does not break leaves the scan position strictly past
\* where it started, and never past the end of the template; the call
\* returns the tokens of the template.
C29_ParseTerminates ==
    /\ parse.iterations <= Len(parse.template)
    /\ parse.position <= Len(parse.template)
    /\ (parse.state = "loop" /\ parse.iterations > 0) => parse.position > parse.before
    /\ parse.state = "returned" => parse.tokens = parse_template(parse.template)

\* C29, its case: a template of four characters was compiled in two
\* iterations, neither of which broke out of the loop.
C29_Witness ==
    /\ parse.state = "returned"
    /\ Len(parse.template) = 4
    /\ parse.iterations = 2
    /\ parse.position = 4
    /\ Len(parse.tokens) = 2
====
